---- MODULE Spec2Model ----
(***************************************************************************)
(* nose2dep: test dependency ordering and runtime gating                   *)
(* (src/nose2dep/core.py).                                                 *)
(*                                                                         *)
(* The module-level registry (dependencies, soft_dependencies, priorities) *)
(* is modelled as three functions whose DOMAIN is the key set of the       *)
(* Python defaultdict: reading d[k] of a defaultdict with an absent key    *)
(* inserts the key, reading through .items() or .get() does not.           *)
(* The plugin instance NoseDep holds results; the host (nose2) calls       *)
(* startTestRun once, then startTest / testOutcome once per test in the    *)
(* order of the suite that startTestRun installed.                         *)
(***************************************************************************)
EXTENDS Integers, Sequences, FiniteSets, TLC

VARIABLES
    dependencies,       \* core.py:69  test name -> set of hard prerequisites
    soft_dependencies,  \* core.py:70  test name -> set of soft prerequisites
    priorities,         \* core.py:72  test name -> priority
    results,            \* core.py:153 NoseDep.results: test name -> outcome
    raised,             \* what the last depends() / startTestRun raised
    selected,           \* keys of all_tests of the last startTestRun
    order,              \* local `order` of the last orderTests call
    suite,              \* event.suite as installed by startTestRun
    pos,                \* index in suite of the test the host is at
    pc,                 \* where the process is: import, idle, gate, exec,
                        \* done, aborted
    gate,               \* what startTest installed on the current test
    executed            \* tests whose own body the host executed this run

vars == <<dependencies, soft_dependencies, priorities, results, raised,
          selected, order, suite, pos, pc, gate, executed>>

registry == <<dependencies, soft_dependencies, priorities>>

----------------------------------------------------------------------------
(* Bounds of the model *)

\* depends() is explored while the registry holds at most this many edges
\* and registered priorities
MaxRegistered == 2
\* one depends() call names at most this many tests in after and before
MaxArgs == 2

(* Program constants *)

default_priority == 50

\* The test names of the explored programs; Python orders them as strings.
Names == {"test_a", "test_b", "test_c"}

NameIdx == [n \in Names |-> CASE n = "test_a" -> 1 [] n = "test_b" -> 2 [] n = "test_c" -> 3]

\* priority arguments given to depends(): <<>> is None (no priority
\* argument), <<p>> is the integer p
PriorityArgs == {<<>>, <<0>>, <<10>>, <<200>>}

\* the after / before arguments given to depends(): lists of names
RECURSIVE ListsOfLen(_)
ListsOfLen(k) ==
    IF k = 0 THEN {<<>>}
    ELSE {Append(l, n) : l \in ListsOfLen(k - 1), n \in Names}

\* the names of a list
Range(s) == {s[i] : i \in 1..Len(s)}

ArgLists == {l \in UNION {ListsOfLen(k) : k \in 0..MaxArgs} :
                Cardinality(Range(l)) = Len(l)}

\* (after, before) pairs of one call
ArgPairs == {ab \in ArgLists \X ArgLists : Len(ab[1]) + Len(ab[2]) <= MaxArgs}

\* outcomes nose2 reports for a test
Outcomes == {"passed", "failed", "error", "skipped"}

NoGate == [test |-> "", action |-> "none", reason |-> <<>>]

----------------------------------------------------------------------------
(* defaultdict access *)

\* d.get(k) / iteration over d.items(): no key is inserted
Lookup(d, k, dflt) == IF k \in DOMAIN d THEN d[k] ELSE dflt

\* the dict after the reads d[k] for k in ks, each inserting its default
Touch(d, ks, dflt) ==
    [k \in DOMAIN d \cup ks |-> IF k \in DOMAIN d THEN d[k] ELSE dflt]

\* d[k].add(v) on a defaultdict(set)
AddTo(d, k, v) ==
    [x \in DOMAIN d \cup {k} |-> IF x = k THEN Lookup(d, k, {}) \cup {v} ELSE d[x]]

\* d[k] = v
Store(d, k, v) == [x \in DOMAIN d \cup {k} |-> IF x = k THEN v ELSE d[x]]

----------------------------------------------------------------------------
(* depends(): the registration decorator, core.py:75-118 *)

\* Python truth value of the priority argument: None and 0 are false
Truthy(priority) == priority # <<>> /\ priority[1] # 0

\* depends without the test of line 83
NoArguments_unchecked(after, before, priority) == FALSE

\* core.py:83  not (after or before or priority); an empty list is false
NoArguments(after, before, priority) ==
    ~(after # <<>> \/ before # <<>> \/ Truthy(priority))

\* handle_dep with the self check made on the first name of the list only
RECURSIVE handle_dep_first_only(_, _, _, _, _)
handle_dep_first_only(d, func, prerequisites, _before, i) ==
    IF i > Len(prerequisites) THEN [d |-> d, raised |-> "none"]
    ELSE IF i = 1 /\ func = prerequisites[i] THEN [d |-> d, raised |-> "ValueError: self"]
    ELSE handle_dep_first_only(IF _before THEN AddTo(d, prerequisites[i], func)
                                          ELSE AddTo(d, func, prerequisites[i]),
                               func, prerequisites, _before, i + 1)

\* core.py:97-110  handle_dep on a list of names, from index i on: the loop
\* raises at the first name equal to func, after the names before it have
\* been added. d is soft_dependencies (_before) or dependencies.
RECURSIVE handle_dep(_, _, _, _, _)
handle_dep(d, func, prerequisites, _before, i) ==
    IF i > Len(prerequisites) THEN [d |-> d, raised |-> "none"]
    ELSE IF func = prerequisites[i] THEN [d |-> d, raised |-> "ValueError: self"]
    ELSE handle_dep(IF _before THEN AddTo(d, prerequisites[i], func)
                               ELSE AddTo(d, func, prerequisites[i]),
                    func, prerequisites, _before, i + 1)

\* the number of edges and of non-default priorities a registry holds
RegistrySize(d, sd, p) ==
    LET Edges(x) == {e \in Names \X Names : e[1] \in DOMAIN x /\ e[2] \in x[e[1]]}
    IN  Cardinality(Edges(d)) + Cardinality(Edges(sd))
          + Cardinality({k \in DOMAIN p : p[k] # default_priority})

\* core.py:115-116
StorePriority(p, func, priority) ==
    IF Truthy(priority) THEN Store(p, func, priority[1]) ELSE p

\* core.py:75-118  depends(func, after=, before=, priority=) on registry
\* (d, sd, p): the registry it leaves and what it raises. isfunction is
\* the outcome of the test of line 81 on func.
depends(d, sd, p, func, after, before, priority, isfunction) ==
    IF ~isfunction
      THEN [d |-> d, sd |-> sd, p |-> p, raised |-> "ValueError: not a function"]
    ELSE IF NoArguments(after, before, priority)
      THEN [d |-> d, sd |-> sd, p |-> p, raised |-> "ValueError: no argument"]
    ELSE LET b == handle_dep(sd, func, before, TRUE, 1)
             a == handle_dep(d, func, after, FALSE, 1)
         IN  IF b.raised # "none"
               THEN [d |-> d, sd |-> b.d, p |-> p, raised |-> b.raised]
             ELSE IF a.raised # "none"
               THEN [d |-> a.d, sd |-> b.d, p |-> p, raised |-> a.raised]
             ELSE [d |-> a.d, sd |-> b.d, p |-> StorePriority(p, func, priority),
                   raised |-> "none"]

\* a depends() decorator runs while the test modules are imported
Decorate(func, after, before, priority, isfunction) ==
    /\ pc = "import"
    /\ LET r == depends(dependencies, soft_dependencies, priorities,
                        func, after, before, priority, isfunction)
       IN  /\ RegistrySize(r.d, r.sd, r.p) <= MaxRegistered
           /\ dependencies' = r.d
           /\ soft_dependencies' = r.sd
           /\ priorities' = r.p
           /\ raised' = r.raised
    /\ UNCHANGED <<results, selected, order, suite, pos, pc, gate, executed>>

----------------------------------------------------------------------------
(* Ordering: core.py:121-176 *)

\* merge_dicts that leaves the second dict out
merge_dicts_first_only(d1, d2) == d1

\* merge_dicts with d3[k] = v in place of d3[k] |= v: for a key of both
\* dicts the set of d2 replaces the set of d1
merge_dicts_overwrite(d1, d2) ==
    [k \in DOMAIN d1 \cup DOMAIN d2 |-> IF k \in DOMAIN d2 THEN d2[k] ELSE d1[k]]

\* core.py:121-125  the union of two dicts of sets, read through .items()
merge_dicts(d1, d2) ==
    [k \in DOMAIN d1 \cup DOMAIN d2 |-> Lookup(d1, k, {}) \cup Lookup(d2, k, {})]

\* The loop of toposort (library toposort, called at core.py:162): every
\* round yields the items without a dependency left and removes them; it
\* raises CircularDependencyError when items remain and none is free.
RECURSIVE toposort_loop(_, _)
toposort_loop(data, yielded) ==
    LET ordered == {item \in DOMAIN data : data[item] = {}}
    IN  IF ordered = {}
        THEN [groups |-> yielded, circular |-> DOMAIN data # {}]
        ELSE toposort_loop([item \in DOMAIN data \ ordered |-> data[item] \ ordered],
                           Append(yielded, ordered))

\* toposort(data): self dependencies are discarded, items that occur only
\* as a dependency get an empty dependency set
toposort(data) ==
    LET noself == [k \in DOMAIN data |-> data[k] \ {k}]
        extra_items_in_deps == UNION {noself[k] : k \in DOMAIN noself} \ DOMAIN noself
    IN  toposort_loop(Touch(noself, extra_items_in_deps, {}), <<>>)

\* the sort key without the priority: names alone
KeyLess_name_only(p, x, y) == NameIdx[x] < NameIdx[y]

\* the key (priorities[x], x) of the two sorted() calls, compared as tuples
KeyLess(p, x, y) ==
    LET px == Lookup(p, x, default_priority)
        py == Lookup(p, y, default_priority)
    IN  px < py \/ (px = py /\ NameIdx[x] < NameIdx[y])

\* sorted(S, key=lambda x: (priorities[x], x))
RECURSIVE sorted(_, _)
sorted(S, p) ==
    IF S = {} THEN <<>>
    ELSE LET first == CHOOSE x \in S : \A y \in S \ {x} : KeyLess(p, x, y)
         IN  <<first>> \o sorted(S \ {first}, p)

RECURSIVE Flatten(_, _)
Flatten(groups, p) ==
    IF groups = <<>> THEN <<>>
    ELSE sorted(Head(groups), p) \o Flatten(Tail(groups), p)

\* calculate_dependencies with one sorted() over all the groups together
calculate_dependencies_one_sort(d, sd, p) ==
    LET t == toposort(merge_dicts(d, sd))
    IN  [order   |-> IF t.circular THEN <<>> ELSE sorted(UNION Range(t.groups), p),
         raised  |-> t.circular,
         touched |-> UNION Range(t.groups)]

\* core.py:155-165  calculate_dependencies on registry (d, sd, p): the order,
\* whether toposort raised, and the names whose priority was read
calculate_dependencies(d, sd, p) ==
    LET t == toposort(merge_dicts(d, sd))
    IN  [order   |-> IF t.circular THEN <<>> ELSE Flatten(t.groups, p),
         raised  |-> t.circular,
         touched |-> UNION Range(t.groups)]

\* lo_prio with < in place of <=
lo_prio_strict(p, x) == Lookup(p, x, default_priority) < default_priority

\* core.py:134-135
lo_prio(p, x) == Lookup(p, x, default_priority) <= default_priority

\* orderTests with conds[1] always true: deps is the whole order
orderTests_unfiltered(all_tests, ord, p) ==
    LET ordered_all_tests == sorted(all_tests, p)
        NotInOrder(t) == t \notin Range(ord)
        Lo(t) == lo_prio(p, t)
        Hi(t) == ~lo_prio(p, t)
        no_deps == SelectSeq(ordered_all_tests, NotInOrder)
        no_deps_l == SelectSeq(no_deps, Lo)
        no_deps_h == SelectSeq(no_deps, Hi)
    IN  no_deps_l \o ord \o no_deps_h

\* orderTests with the tests of the order taken last to first
orderTests_deps_reversed(all_tests, ord, p) ==
    LET ordered_all_tests == sorted(all_tests, p)
        NotInOrder(t) == t \notin Range(ord)
        Selected(t) == t \in all_tests
        Lo(t) == lo_prio(p, t)
        Hi(t) == ~lo_prio(p, t)
        no_deps == SelectSeq(ordered_all_tests, NotInOrder)
        rev == [i \in 1..Len(ord) |-> ord[Len(ord) + 1 - i]]
        deps == SelectSeq(rev, Selected)
        no_deps_l == SelectSeq(no_deps, Lo)
        no_deps_h == SelectSeq(no_deps, Hi)
    IN  no_deps_l \o deps \o no_deps_h

\* core.py:167-176  orderTests(all_tests), given the order computed at line
\* 169: the names of the returned suite
orderTests(all_tests, ord, p) ==
    LET ordered_all_tests == sorted(all_tests, p)
        InOrder(t) == t \in Range(ord)
        NotInOrder(t) == t \notin Range(ord)
        Selected(t) == t \in all_tests
        Lo(t) == lo_prio(p, t)
        Hi(t) == ~lo_prio(p, t)
        no_deps == SelectSeq(ordered_all_tests, NotInOrder)
        deps == SelectSeq(ord, Selected)
        no_deps_l == SelectSeq(no_deps, Lo)
        no_deps_h == SelectSeq(no_deps, Hi)
    IN  no_deps_l \o deps \o no_deps_h

\* core.py:178-182  startTestRun: the host hands over the loaded tests, the
\* plugin replaces event.suite by the ordered suite. A CircularDependencyError
\* leaves the hook before all_tests is sorted and aborts the run.
startTestRun(all_tests) ==
    /\ pc \in {"import", "idle"}
    /\ selected' = all_tests
    /\ LET c == calculate_dependencies(dependencies, soft_dependencies, priorities)
       IN  IF c.raised
           THEN /\ raised' = "CircularDependencyError"
                /\ priorities' = Touch(priorities, c.touched, default_priority)
                /\ order' = <<>>
                /\ suite' = <<>>
                /\ pos' = 0
                /\ pc' = "aborted"
           ELSE /\ raised' = "none"
                /\ priorities' = Touch(priorities, c.touched \cup all_tests,
                                       default_priority)
                /\ order' = c.order
                /\ suite' = orderTests(all_tests, c.order, priorities)
                /\ pos' = IF suite' = <<>> THEN 0 ELSE 1
                /\ pc' = IF suite' = <<>> THEN "done" ELSE "gate"
    /\ UNCHANGED <<dependencies, soft_dependencies, results, gate, executed>>

----------------------------------------------------------------------------
(* The runtime gate and the outcome tracker: core.py:151-153, 184-223 *)

\* The id of the loaded test method `name`: its class and its name, the
\* components that test.id() separates by dots. A name of the registry has
\* no dot and is its only component.
TestId(name) == <<"TC", name>>

\* core.py:212-219  test_name: the last component of the dotted name
test_name(test) == test[Len(test)]

\* the outcome as recorded, not upper-cased
upper_missing(outcome) == outcome

\* str.upper() on an outcome
upper(outcome) ==
    CASE outcome = "passed"  -> "PASSED"
      [] outcome = "failed"  -> "FAILED"
      [] outcome = "error"   -> "ERROR"
      [] outcome = "skipped" -> "SKIPPED"

\* dependency_failed over dependencies[test] only
dependency_failed_hard_only(d, sd, res, test) ==
    LET failed == {x \in {test_name(<<i>>) : i \in d[test]} :
                      x \in DOMAIN res /\ res[x] # "passed"}
    IN  IF failed = {} THEN {<<>>}
        ELSE {<<"Required test '", x, "' ", upper(res[x])>> : x \in failed}

\* dependency_failed without the `self.results.get(d) and` guard: a
\* dependency without a recorded outcome counts as not passed
dependency_failed_no_guard(d, sd, res, test) ==
    LET failed == {x \in {test_name(<<i>>) : i \in d[test] \cup sd[test]} :
                      x \notin DOMAIN res \/ res[x] # "passed"}
    IN  IF failed = {} THEN {<<>>}
        ELSE {<<"Required test '", x, "' ",
                IF x \in DOMAIN res THEN upper(res[x]) ELSE "NONE">> : x \in failed}

\* dependency_failed that counts the outcome failed only
dependency_failed_failed_only(d, sd, res, test) ==
    LET failed == {x \in {test_name(<<i>>) : i \in d[test] \cup sd[test]} :
                      x \in DOMAIN res /\ res[x] = "failed"}
    IN  IF failed = {} THEN {<<>>}
        ELSE {<<"Required test '", x, "' ", upper(res[x])>> : x \in failed}

\* core.py:184-189  dependency_failed(test): the values it can return, one
\* per dependency the iteration over the set can meet first; {<<>>} is None.
\* d and sd are the two dicts after the reads dependencies[test] and
\* soft_dependencies[test].
dependency_failed(d, sd, res, test) ==
    LET failed == {x \in {test_name(<<i>>) : i \in d[test] \cup sd[test]} :
                      x \in DOMAIN res /\ res[x] # "passed"}
    IN  IF failed = {} THEN {<<>>}
        ELSE {<<"Required test '", x, "' ", upper(res[x])>> : x \in failed}

\* dependency_ran that finds every dependency recorded
dependency_ran_never(d, res, test) == {<<>>}

\* core.py:191-196  dependency_ran(test): the values it can return
dependency_ran(d, res, test) ==
    LET missing == {x \in {test_name(<<i>>) : i \in d[test]} : x \notin DOMAIN res}
    IN  IF missing = {} THEN {<<>>}
        ELSE {<<"Required test '", x, "' did not run (does it exist?)">> : x \in missing}

\* startTest with the two checks in the other order
startTest_ran_first ==
    /\ pc = "gate"
    /\ LET tn == test_name(TestId(suite[pos]))
           d  == Touch(dependencies, {tn}, {})
           sd == Touch(soft_dependencies, {tn}, {})
       IN  /\ dependencies' = d
           /\ soft_dependencies' = sd
           /\ \E res1 \in dependency_ran(d, results, tn) :
                IF res1 # <<>>
                THEN gate' = [test |-> tn, action |-> "fail", reason |-> res1]
                ELSE \E res2 \in dependency_failed(d, sd, results, tn) :
                       IF res2 # <<>>
                       THEN gate' = [test |-> tn, action |-> "skip", reason |-> res2]
                       ELSE gate' = [test |-> tn, action |-> "run", reason |-> <<>>]
    /\ pc' = "exec"
    /\ UNCHANGED <<priorities, results, raised, selected, order, suite, pos,
                   executed>>

\* core.py:198-210  startTest: called by the host for the next test of the
\* suite, before the test method is looked up and called
startTest ==
    /\ pc = "gate"
    /\ LET tn == test_name(TestId(suite[pos]))
           d  == Touch(dependencies, {tn}, {})
           sd == Touch(soft_dependencies, {tn}, {})
       IN  /\ dependencies' = d
           /\ soft_dependencies' = sd
           /\ \E res1 \in dependency_failed(d, sd, results, tn) :
                IF res1 # <<>>
                THEN gate' = [test |-> tn, action |-> "skip", reason |-> res1]
                ELSE \E res2 \in dependency_ran(d, results, tn) :
                       IF res2 # <<>>
                       THEN gate' = [test |-> tn, action |-> "fail", reason |-> res2]
                       ELSE gate' = [test |-> tn, action |-> "run", reason |-> <<>>]
    /\ pc' = "exec"
    /\ UNCHANGED <<priorities, results, raised, selected, order, suite, pos,
                   executed>>

\* core.py:221-223  testOutcome: the host runs the test method (the partial
\* of skipTest or fail that startTest installed, or the test's own body,
\* which can end in any outcome) and reports the outcome
testOutcome(outcome) ==
    /\ pc = "exec"
    /\ gate.action = "skip" => outcome = "skipped"
    /\ gate.action = "fail" => outcome = "failed"
    /\ results' = Store(results, test_name(TestId(suite[pos])), outcome)
    /\ executed' = IF gate.action = "run" THEN executed \cup {suite[pos]} ELSE executed
    /\ pos' = pos + 1
    /\ pc' = IF pos = Len(suite) THEN "done" ELSE "gate"
    /\ UNCHANGED <<dependencies, soft_dependencies, priorities, raised,
                   selected, order, suite, gate>>

\* core.py:151-153  NoseDep.__init__: the next run of the process gets a new
\* plugin instance; the registry of the module is kept
PluginInit ==
    /\ pc \in {"done", "aborted"}
    /\ results' = <<>>
    /\ pc' = "idle"
    /\ selected' = {}
    /\ order' = <<>>
    /\ suite' = <<>>
    /\ pos' = 0
    /\ gate' = NoGate
    /\ executed' = {}
    /\ raised' = "none"
    /\ UNCHANGED <<dependencies, soft_dependencies, priorities>>

----------------------------------------------------------------------------
(* The process: the test modules are imported, which runs their depends()
   decorators on an empty registry; then the host runs the tests, every run
   with a plugin instance of its own and the registry as the runs before
   left it *)

Init ==
    /\ dependencies = <<>>
    /\ soft_dependencies = <<>>
    /\ priorities = <<>>
    /\ results = <<>>
    /\ raised = "none"
    /\ selected = {}
    /\ order = <<>>
    /\ suite = <<>>
    /\ pos = 0
    /\ pc = "import"
    /\ gate = NoGate
    /\ executed = {}

Register ==
    /\ pc = "import"
    /\ \E func \in Names, ab \in ArgPairs, priority \in PriorityArgs,
          isfunction \in BOOLEAN :
        Decorate(func, ab[1], ab[2], priority, isfunction)

StartRun ==
    /\ pc \in {"import", "idle"}
    /\ \E all_tests \in SUBSET Names : startTestRun(all_tests)

Outcome ==
    /\ pc = "exec"
    /\ \E outcome \in Outcomes : testOutcome(outcome)

Next == Register \/ StartRun \/ startTest \/ Outcome \/ PluginInit

Spec == Init /\ [][Next]_vars

----------------------------------------------------------------------------
(* Vocabulary of the properties *)

HardDeps(t) == Lookup(dependencies, t, {})
SoftDeps(t) == Lookup(soft_dependencies, t, {})
AllDeps(t)  == HardDeps(t) \cup SoftDeps(t)
Priority(t) == Lookup(priorities, t, default_priority)

\* x occurs in seq, and y occurs in it at a greater index
Precedes(seq, x, y) ==
    \E i \in 1..Len(seq) : \E j \in 1..Len(seq) : i < j /\ seq[i] = x /\ seq[j] = y

NoDuplicates(seq) ==
    \A i \in 1..Len(seq) : \A j \in 1..Len(seq) : seq[i] = seq[j] => i = j

\* (priority, name) of x is smaller than that of y
KeyBefore(x, y) ==
    Priority(x) < Priority(y) \/ (Priority(x) = Priority(y) /\ NameIdx[x] < NameIdx[y])

\* the names reachable from t over one or more hard or soft edges
RECURSIVE ReachIn(_, _)
ReachIn(S, k) ==
    IF k = 0 THEN S ELSE ReachIn(S \cup UNION {AllDeps(x) : x \in S}, k - 1)

Reach(t) == ReachIn(AllDeps(t), Cardinality(Names))

\* the union of the hard and the soft edges has no cycle
Acyclic == \A t \in Names : t \notin Reach(t)

\* startTestRun has returned a suite for the current run
Ordered == pc \in {"gate", "exec", "done"}

\* the test the gate was last consulted for, and what is recorded about its
\* dependencies
NotPassed(t) == {d \in AllDeps(t) : d \in DOMAIN results /\ results[d] # "passed"}
NeverRan(t)  == {d \in HardDeps(t) : d \notin DOMAIN results}

----------------------------------------------------------------------------
(* Properties *)

\* C1: on an acyclic registry calculate_dependencies returns (it does not
\* raise) and what it returns is a topological order of the union of the
\* hard and the soft edges: for every edge A -> B (A depends on B), B occurs
\* in the order at a smaller index than A.
C1_TopologicalOrder ==
    (pc \in {"gate", "exec", "done", "aborted"} /\ Acyclic) =>
        /\ pc # "aborted"
        /\ \A a \in Names : \A b \in AllDeps(a) : Precedes(order, b, a)

\* an order was computed for a registry in which the prerequisite of a soft
\* edge has a greater priority number than its dependent
C1_Witness ==
    /\ Ordered
    /\ \E a \in Names : \E b \in SoftDeps(a) : Priority(b) > Priority(a)

C4_DependenciesFirst ==
    Ordered =>
        \A a \in selected : \A b \in AllDeps(a) \cap selected : Precedes(suite, b, a)

\* a suite in which a selected prerequisite has a priority above the default
\* and its selected dependent has not
C4_Witness ==
    /\ Ordered
    /\ \E a \in selected : \E b \in AllDeps(a) \cap selected :
          Priority(b) > default_priority /\ Priority(a) <= default_priority

\* C5: over a run, the body of a test A is executed only if every hard
\* dependency of A has the recorded outcome passed and no soft dependency of
\* A has a recorded outcome other than passed; the same holds of the test
\* the gate has just let run.
C5_RunOnlyAfterPassed ==
    LET Satisfied(t) ==
            /\ \A d \in HardDeps(t) : d \in DOMAIN results /\ results[d] = "passed"
            /\ \A d \in SoftDeps(t) : d \in DOMAIN results => results[d] = "passed"
    IN  /\ \A t \in executed : Satisfied(t)
        /\ (pc = "exec" /\ gate.action = "run") => Satisfied(gate.test)

\* the body of a test with a hard and a soft dependency was executed
C5_Witness ==
    \E t \in executed : HardDeps(t) # {} /\ SoftDeps(t) # {}

\* C6: whenever a hard or soft dependency of t has a recorded outcome that
\* is not passed, the gate makes t skip with the reason "Required test '<d>'
\* <OUTCOME>", d being such a dependency and OUTCOME its outcome in upper
\* case; the body of a test the gate makes skip is not executed and its
\* outcome is skipped.
C6_SkipOnNotPassed ==
    /\ (pc = "exec" /\ NotPassed(gate.test) # {}) =>
          /\ gate.action = "skip"
          /\ \E d \in NotPassed(gate.test) :
                \E o \in {<<"failed", "FAILED">>, <<"error", "ERROR">>,
                           <<"skipped", "SKIPPED">>} :
                    /\ results[d] = o[1]
                    /\ gate.reason = <<"Required test '", d, "' ", o[2]>>
    /\ gate.action = "skip" =>
          /\ gate.test \notin executed
          /\ gate.test \in DOMAIN results => results[gate.test] = "skipped"

\* a test was skipped for a soft dependency that ended in error
C6_Witness ==
    /\ pc \in {"gate", "done"}
    /\ gate.action = "skip"
    /\ gate.test \in DOMAIN results
    /\ \E d \in SoftDeps(gate.test) \ HardDeps(gate.test) :
          gate.reason = <<"Required test '", d, "' ", "ERROR">>

\* C7: when no dependency of t has a recorded outcome other than passed and
\* a hard dependency of t has no recorded outcome, the gate makes t fail (not
\* skip) with the reason "Required test '<d>' did not run (does it exist?)"
\* for such a dependency d, and t ends with the outcome failed.
C7_FailOnNeverRan ==
    /\ (pc = "exec" /\ NotPassed(gate.test) = {} /\ NeverRan(gate.test) # {}) =>
          /\ gate.action = "fail"
          /\ \E d \in NeverRan(gate.test) :
                gate.reason = <<"Required test '", d, "' did not run (does it exist?)">>
    /\ gate.action = "fail" =>
          /\ gate.test \notin executed
          /\ gate.test \in DOMAIN results => results[gate.test] = "failed"

\* a test declared after a name that is not selected ended failed
C7_Witness ==
    /\ gate.action = "fail"
    /\ gate.test \in DOMAIN results
    /\ results[gate.test] = "failed"
    /\ \E d \in HardDeps(gate.test) : d \notin selected

\* C8: a soft dependency that never ran does not gate: when every hard
\* dependency of t has the recorded outcome passed and every soft dependency
\* of t has the outcome passed or none, the gate lets t run.
C8_SoftNeverRanDoesNotGate ==
    ( /\ pc = "exec"
      /\ \A d \in HardDeps(gate.test) : d \in DOMAIN results /\ results[d] = "passed"
      /\ \A d \in SoftDeps(gate.test) : d \in DOMAIN results => results[d] = "passed" )
    => gate.action = "run"

\* the gate let a test run whose soft dependency has no recorded outcome
C8_Witness ==
    /\ pc = "exec"
    /\ gate.action = "run"
    /\ \E d \in SoftDeps(gate.test) : d \notin DOMAIN results

\* C9: first match wins: when t has a dependency with a recorded outcome
\* other than passed and also a hard dependency without a recorded outcome,
\* the gate makes t skip, not fail.
C9_FirstMatchWins ==
    (pc = "exec" /\ NotPassed(gate.test) # {} /\ NeverRan(gate.test) # {})
    => gate.action = "skip"

\* the gate was consulted for a test with a failed dependency and a hard
\* dependency that never ran
C9_Witness ==
    /\ pc = "exec"
    /\ NotPassed(gate.test) # {}
    /\ NeverRan(gate.test) # {}
    /\ gate.action = "skip"

\* C10: on every registry, a depends() call whose after or before list holds
\* the name of the decorated test raises ValueError, wherever in the list
\* the name is and whatever the other arguments are; the error is the
\* self-dependency one whenever the target is a function or method.
C10_SelfDependencyRaises ==
    pc = "import" =>
        \A func \in Names, ab \in ArgPairs, priority \in PriorityArgs,
           isfunction \in BOOLEAN :
            func \in Range(ab[1]) \cup Range(ab[2]) =>
                LET r == depends(dependencies, soft_dependencies, priorities,
                                 func, ab[1], ab[2], priority, isfunction)
                IN  /\ r.raised \in {"ValueError: self", "ValueError: not a function"}
                    /\ isfunction => r.raised = "ValueError: self"

\* a depends() call raised the self-dependency error on a registry that
\* holds an edge
C10_Witness ==
    /\ pc = "import"
    /\ raised = "ValueError: self"
    /\ RegistrySize(dependencies, soft_dependencies, priorities) = 1

\* C11: on every registry, a depends() call without after, before and
\* priority (each absent or empty) raises ValueError and leaves the
\* registry as it was.
C11_NoArgumentsRaises ==
    pc = "import" =>
        \A func \in Names, isfunction \in BOOLEAN :
            LET r == depends(dependencies, soft_dependencies, priorities,
                             func, <<>>, <<>>, <<>>, isfunction)
            IN  /\ r.raised \in {"ValueError: no argument", "ValueError: not a function"}
                /\ isfunction => r.raised = "ValueError: no argument"
                /\ <<r.d, r.sd, r.p>> = registry

\* a depends() call without arguments has raised on a registry that holds
\* something
C11_Witness ==
    /\ pc = "import"
    /\ raised = "ValueError: no argument"
    /\ RegistrySize(dependencies, soft_dependencies, priorities) > 0

\* C12 (the claim as stated): a depends() call on a test function that
\* supplies an integer priority p, 0 and negative values included, and no
\* name of its own in after or before, is accepted and leaves p as the
\* stored priority of the test; a priority that is stored is 50 or a value
\* that was supplied.
C12_PriorityStored ==
    /\ pc = "import" =>
          \A func \in Names, ab \in ArgPairs,
             priority \in PriorityArgs \cup {<<-5>>} :
              (priority # <<>> /\ func \notin Range(ab[1]) \cup Range(ab[2])) =>
                  LET r == depends(dependencies, soft_dependencies, priorities,
                                   func, ab[1], ab[2], priority, TRUE)
                  IN  /\ r.raised = "none"
                      /\ func \in DOMAIN r.p
                      /\ r.p[func] = priority[1]
    /\ \A t \in DOMAIN priorities :
          priorities[t] = 50 \/ <<priorities[t]>> \in PriorityArgs

\* C13: whenever the union of the hard and the soft edges has a cycle,
\* calculate_dependencies raises (CircularDependencyError of toposort): the
\* run is aborted with no order and no suite, also when the hard edges alone
\* and the soft edges alone have no cycle.
C13_CycleIsFatal ==
    (pc \in {"gate", "exec", "done", "aborted"} /\ ~Acyclic) =>
        /\ pc = "aborted"
        /\ raised = "CircularDependencyError"
        /\ order = <<>>
        /\ suite = <<>>

\* a run was aborted for a cycle made of one hard and one soft edge
C13_Witness ==
    /\ pc = "aborted"
    /\ raised = "CircularDependencyError"
    /\ \E a \in Names : \E b \in HardDeps(a) \ SoftDeps(a) :
          a \in SoftDeps(b) \ HardDeps(b)
    /\ \A a \in Names : \A b \in HardDeps(a) : a \notin HardDeps(b)
    /\ \A a \in Names : \A b \in SoftDeps(a) : a \notin SoftDeps(b)

\* C14 (the claim as stated): when only test B is selected and B has a
\* hard dependency on A, A is in the suite and runs before B.
C14_PrerequisiteIncluded ==
    Ordered =>
        \A b \in Names : \A a \in HardDeps(b) :
            selected = {b} => Precedes(suite, a, b)

\* C15 (the claim as stated): a gate consultation or an outcome record
\* leaves the registry as it was, key sets included, and with it what
\* calculate_dependencies and orderTests return.
C15_RegistryReadOnly ==
    [][(pc = "gate" \/ pc = "exec") =>
         (LET c0 == calculate_dependencies(dependencies, soft_dependencies,
                                           priorities)
              c1 == calculate_dependencies(dependencies', soft_dependencies',
                                           priorities')
          IN  /\ registry' = registry
              /\ c1.order = c0.order
              /\ orderTests(selected, c1.order, priorities')
                   = orderTests(selected, c0.order, priorities))]_vars

\* C16 (the claim as stated): on an acyclic registry dependencyOrder has no
\* duplicates and holds exactly the names that are the dependent or the
\* prerequisite of a hard or soft edge.
C16_OrderIsTheEdgeNames ==
    Ordered =>
        /\ NoDuplicates(order)
        /\ Range(order) = {n \in Names : AllDeps(n) # {} \/ \E m \in Names : n \in AllDeps(m)}

\* the depth of a node of an acyclic graph: 0 without prerequisites, else
\* one more than the greatest depth of a prerequisite
RECURSIVE Depth(_)
Depth(n) ==
    IF AllDeps(n) = {} THEN 0
    ELSE LET ds == {Depth(d) : d \in AllDeps(n)}
         IN  1 + CHOOSE m \in ds : \A k \in ds : k <= m

\* C17: dependencyOrder is the layers in increasing depth, each layer in
\* ascending (priority, name) order: a node of smaller depth precedes a node
\* of greater depth whatever their priorities, and of two nodes of the same
\* depth the one with the smaller (priority, name) comes first.
C17_LayersThenPriority ==
    Ordered =>
        \A x \in Range(order) : \A y \in Range(order) :
            (Depth(x) < Depth(y) \/ (Depth(x) = Depth(y) /\ KeyBefore(x, y)))
                => Precedes(order, x, y)

\* an order in which a layer holds two nodes whose priorities reverse their
\* name order, and a node of a later layer has a smaller priority number than
\* a node of an earlier one
C17_Witness ==
    /\ Ordered
    /\ \E x \in Range(order) : \E y \in Range(order) :
          Depth(x) = Depth(y) /\ NameIdx[x] < NameIdx[y] /\ Priority(y) < Priority(x)
    /\ \E x \in Range(order) : \E y \in Range(order) :
          Depth(x) < Depth(y) /\ Priority(y) < Priority(x)

\* C18: when the gate is consulted for t, every dependency of t that is among
\* the selected tests has a recorded outcome; so t gets the "did not run"
\* failure only when one of its hard dependencies is not selected.
C18_SelectedDependenciesRecorded ==
    pc = "exec" =>
        /\ \A d \in AllDeps(gate.test) \cap selected : d \in DOMAIN results
        /\ gate.action = "fail" =>
              \E d \in HardDeps(gate.test) : d \notin selected /\ d \notin DOMAIN results

\* a test failed as "did not run" for an unselected hard dependency while
\* another dependency of it, selected, had passed before it
C18_Witness ==
    /\ pc = "exec"
    /\ gate.action = "fail"
    /\ \E d \in AllDeps(gate.test) \cap selected :
          d \in DOMAIN results /\ results[d] = "passed"

\* the selected tests t depends on through hard or soft edges between
\* selected tests
RECURSIVE SelectedReachIn(_, _)
SelectedReachIn(S, k) ==
    IF k = 0 THEN S
    ELSE SelectedReachIn(S \cup UNION {AllDeps(x) \cap selected : x \in S}, k - 1)

SelectedReach(t) == SelectedReachIn(AllDeps(t) \cap selected, Cardinality(Names))

\* C19: a selected test that depends, directly or through selected tests, on
\* a selected test that ended failed, error or skipped ends skipped, and its
\* body is not executed.
C19_NotPassedPropagates ==
    Ordered =>
        \A t \in selected : \A d \in SelectedReach(t) :
            /\ t \in DOMAIN results => d \in DOMAIN results
            /\ (t \in DOMAIN results /\ results[d] # "passed") =>
                  results[t] = "skipped" /\ t \notin executed

\* a run of a chain of three selected tests whose first ended in error and
\* whose last, which depends on the first through the second only, ended
\* skipped
C19_Witness ==
    /\ pc = "done"
    /\ \E t \in selected : \E m \in AllDeps(t) \cap selected :
          \E d \in (AllDeps(m) \cap selected) \ AllDeps(t) :
              /\ results[d] = "error"
              /\ results[m] = "skipped"
              /\ results[t] = "skipped"

\* C20 (the claim as stated): a depends() call that raises leaves the registry
\* as it was before the call.
C20_FailedCallStoresNothing ==
    pc = "import" =>
        \A func \in Names, ab \in ArgPairs, priority \in PriorityArgs,
           isfunction \in BOOLEAN :
            LET r == depends(dependencies, soft_dependencies, priorities,
                             func, ab[1], ab[2], priority, isfunction)
            IN  r.raised # "none" => <<r.d, r.sd, r.p>> = registry

====
